---- MODULE Spec2Model ----
(***************************************************************************)
(* Model of backend/python/app.py: the technical-indicator functions       *)
(* (calculate_rsi, calculate_macd, calculate_bollinger_bands), each with   *)
(* its TA-Lib branch and its pandas fallback, and the two request          *)
(* handlers get_indicators and run_screener.                               *)
(*                                                                         *)
(* Floating-point values are modelled as exact rationals with the IEEE     *)
(* specials NaN and +/-inf.  The iterated recurrences (exponential and     *)
(* Wilder smoothing) and the square root are rounded to a fixed number of  *)
(* decimals, which stands for the rounding of float64.  Positions of a     *)
(* series are 1-based here; position i of the source is index i+1.         *)
(***************************************************************************)
EXTENDS Integers, Sequences, FiniteSets, TLC

VARIABLES TALIB_AVAILABLE, request, response, args, out

vars == <<TALIB_AVAILABLE, request, response, args, out>>

(***************************************************************************)
(* float64                                                                 *)
(***************************************************************************)
Abs(x) == IF x < 0 THEN -x ELSE x

RECURSIVE GCD(_, _)
GCD(a, b) == IF b = 0 THEN a ELSE GCD(b, a % b)

NaN == [k |-> "nan", n |-> 0, d |-> 1]

Inf(s) == [k |-> "inf", n |-> s, d |-> 1]

\* the rational n/d (d > 0) in lowest terms
Q(n, d) == LET g == GCD(Abs(n), d) IN [k |-> "num", n |-> n \div g, d |-> d \div g]

F(i) == Q(i, 1)

\* the marker of a raised exception (ZeroDivisionError, KeyError, ...)
Raise == [k |-> "raise", n |-> 0, d |-> 1]

IsNaN(a) == a.k = "nan"

Sign(a) == IF a.n > 0 THEN 1 ELSE IF a.n < 0 THEN -1 ELSE 0

FNeg(a) == IF a.k = "nan" THEN NaN ELSE [a EXCEPT !.n = -a.n]

FAdd(a, b) ==
    CASE a.k = "nan" \/ b.k = "nan" -> NaN
      [] a.k = "inf" /\ b.k = "inf" -> IF a.n = b.n THEN a ELSE NaN
      [] a.k = "inf" -> a
      [] b.k = "inf" -> b
      [] OTHER -> LET m == (a.d \div GCD(a.d, b.d)) * b.d
                  IN  Q(a.n * (m \div a.d) + b.n * (m \div b.d), m)

FSub(a, b) == FAdd(a, FNeg(b))

FMul(a, b) ==
    CASE a.k = "nan" \/ b.k = "nan" -> NaN
      [] a.k = "inf" \/ b.k = "inf" ->
            IF Sign(a) * Sign(b) = 0 THEN NaN ELSE Inf(Sign(a) * Sign(b))
      [] OTHER -> Q(a.n * b.n, a.d * b.d)

\* numpy/pandas division: x/0 is +/-inf, 0/0 is NaN, nothing is raised
FDiv(a, b) ==
    CASE a.k = "nan" \/ b.k = "nan" -> NaN
      [] a.k = "inf" /\ b.k = "inf" -> NaN
      [] a.k = "inf" -> Inf(IF b.n < 0 THEN -a.n ELSE a.n)
      [] b.k = "inf" -> F(0)
      [] b.n = 0 -> IF a.n = 0 THEN NaN ELSE Inf(Sign(a))
      [] OTHER -> Q(a.n * b.d * Sign(b), a.d * Abs(b.n))

\* division of two Python floats: ZeroDivisionError on a zero divisor
PyDiv(a, b) ==
    IF b.k = "num" /\ b.n = 0 THEN Raise ELSE FDiv(a, b)

RECURSIVE RatLess(_, _, _, _)
\* an/ad < bn/bd (ad, bd > 0), decided on the integer parts and then on the
\* reciprocals of the fractional parts, so that no product is formed
RatLess(an, ad, bn, bd) ==
    IF an \div ad # bn \div bd THEN an \div ad < bn \div bd
    ELSE IF bn % bd = 0 THEN FALSE
    ELSE IF an % ad = 0 THEN TRUE
    ELSE RatLess(bd, bn % bd, ad, an % ad)

\* every comparison with NaN is False
FLt(a, b) ==
    CASE a.k = "nan" \/ b.k = "nan" -> FALSE
      [] a.k = "inf" /\ b.k = "inf" -> a.n < b.n
      [] a.k = "inf" -> a.n < 0
      [] b.k = "inf" -> b.n > 0
      [] OTHER -> RatLess(a.n, a.d, b.n, b.d)

FLe(a, b) ==
    CASE a.k = "nan" \/ b.k = "nan" -> FALSE
      [] a.k = "inf" /\ b.k = "inf" -> a.n <= b.n
      [] a.k = "inf" -> a.n < 0
      [] b.k = "inf" -> b.n > 0
      [] OTHER -> ~RatLess(b.n, b.d, a.n, a.d)

FGt(a, b) == FLt(b, a)

FGe(a, b) == FLe(b, a)

FAbs(a) == IF a.k = "nan" THEN NaN ELSE [a EXCEPT !.n = Abs(a.n)]

\* decimals kept by a rounded operation
Scale == 10 ^ 3

\* a finite value rounded (half up) to a multiple of 1/Scale
Round(a) ==
    IF a.k # "num" THEN a
    ELSE LET q == a.n \div a.d
             r == a.n % a.d
         IN  Q(q * Scale + (2 * r * Scale + a.d) \div (2 * a.d), Scale)

RECURSIVE ISqrtIn(_, _, _)
ISqrtIn(m, lo, hi) ==
    IF lo = hi THEN lo
    ELSE LET mid == (lo + hi + 1) \div 2
         IN  IF mid * mid <= m THEN ISqrtIn(m, mid, hi) ELSE ISqrtIn(m, lo, mid - 1)

\* the square root, to two decimals
FSqrt(a) ==
    CASE a.k = "nan" -> NaN
      [] a.k = "inf" -> IF a.n > 0 THEN a ELSE NaN
      [] a.n < 0 -> NaN
      [] OTHER ->
            LET q == a.n \div a.d
                r == a.n % a.d
                m == q * 10000 + (r * 10000) \div a.d
            IN  Q(ISqrtIn(m, 0, 40000), 100)

(***************************************************************************)
(* pandas Series operations used by the fallback branches                  *)
(***************************************************************************)
\* a function over 1..n as a sequence value
Series(f) == f \o <<>>

RECURSIVE FSum(_, _, _)
\* s[lo] + ... + s[hi]
FSum(s, lo, hi) ==
    IF lo > hi THEN F(0)
    ELSE IF lo = hi THEN s[lo]
    ELSE LET mid == (lo + hi) \div 2
         IN  FAdd(FSum(s, lo, mid), FSum(s, mid + 1, hi))

HasNaN(s, lo, hi) == \E j \in lo..hi : IsNaN(s[j])

\* Series.diff(): the first element has no predecessor
diff(s) == Series([i \in 1..Len(s) |-> IF i = 1 THEN NaN ELSE FSub(s[i], s[i - 1])])

\* Series.rolling(window=w).mean(): min_periods defaults to the window
rolling_mean(s, w) ==
    Series([i \in 1..Len(s) |->
        IF i < w \/ HasNaN(s, i - w + 1, i) THEN NaN
        ELSE FDiv(FSum(s, i - w + 1, i), F(w))])

\* the sum of squared deviations of s[lo..hi] from m
SqDev(s, lo, hi, m) ==
    FSum([j \in 1..Len(s) |-> FMul(FSub(s[j], m), FSub(s[j], m))], lo, hi)

\* Series.rolling(window=w).std(): sample standard deviation (ddof = 1)
rolling_std(s, w) ==
    Series([i \in 1..Len(s) |->
        IF i < w \/ HasNaN(s, i - w + 1, i) THEN NaN
        ELSE LET m == FDiv(FSum(s, i - w + 1, i), F(w))
             IN  FSqrt(FDiv(SqDev(s, i - w + 1, i, m), F(w - 1)))])

RECURSIVE ewm_acc(_, _, _, _)
ewm_acc(s, span, i, acc) ==
    IF i > Len(s) THEN acc
    ELSE LET alpha == Q(2, span + 1)
             y == IF i = 1 THEN s[1]
                  ELSE Round(FAdd(FMul(FSub(F(1), alpha), acc[i - 1]),
                                  FMul(alpha, s[i])))
         IN  ewm_acc(s, span, i + 1, Append(acc, y))

\* Series.ewm(span=span, adjust=False).mean(): y[0] = x[0],
\* y[i] = (1 - alpha) y[i-1] + alpha x[i], alpha = 2 / (span + 1)
ewm_mean(s, span) == ewm_acc(s, span, 1, <<>>)

SeriesSub(a, b) == Series([i \in 1..Len(a) |-> FSub(a[i], b[i])])

SeriesAdd(a, b) == Series([i \in 1..Len(a) |-> FAdd(a[i], b[i])])

SeriesScale(a, c) == Series([i \in 1..Len(a) |-> FMul(a[i], c)])

AllNaN(n) == Series([i \in 1..n |-> NaN])

(***************************************************************************)
(* TA-Lib (the accelerated branch).  The library is not part of the        *)
(* repository; its functions are modelled by what TA-Lib computes:         *)
(* the first `lookback` outputs are NaN and an input no longer than the    *)
(* lookback gives an all-NaN output of the input's length.                 *)
(***************************************************************************)
Gain(s, i) == IF FGt(s[i], s[i - 1]) THEN FSub(s[i], s[i - 1]) ELSE F(0)

Loss(s, i) == IF FLt(s[i], s[i - 1]) THEN FSub(s[i - 1], s[i]) ELSE F(0)

\* TA_RSI's output for smoothed gain g and loss l: 0 when both are zero
RsiOf(g, l) ==
    IF FAdd(g, l).n = 0 THEN F(0)
    ELSE FMul(F(100), FDiv(g, FAdd(g, l)))

RECURSIVE WilderAcc(_, _, _, _, _, _)
WilderAcc(s, period, i, g, l, acc) ==
    IF i > Len(s) THEN acc
    ELSE LET g2 == Round(FDiv(FAdd(FMul(g, F(period - 1)), Gain(s, i)), F(period)))
             l2 == Round(FDiv(FAdd(FMul(l, F(period - 1)), Loss(s, i)), F(period)))
         IN  WilderAcc(s, period, i + 1, g2, l2, Append(acc, RsiOf(g2, l2)))

\* talib.RSI(prices, timeperiod=period): Wilder smoothing, lookback = period
talib_RSI(s, period) ==
    IF Len(s) <= period THEN AllNaN(Len(s))
    ELSE LET g0 == FDiv(FSum(Series([i \in 1..Len(s) |-> IF i = 1 THEN F(0) ELSE Gain(s, i)]),
                             2, period + 1), F(period))
             l0 == FDiv(FSum(Series([i \in 1..Len(s) |-> IF i = 1 THEN F(0) ELSE Loss(s, i)]),
                             2, period + 1), F(period))
         IN  WilderAcc(s, period, period + 2, g0, l0,
                       Append(AllNaN(period), RsiOf(g0, l0)))

RECURSIVE EmaAcc(_, _, _, _, _)
\* TA_INT_EMA from index i on: e[i] = e[i-1] + k (x[i] - e[i-1]), k = 2/(period+1)
EmaAcc(s, period, i, prev, acc) ==
    IF i > Len(s) THEN acc
    ELSE LET k == Q(2, period + 1)
             e == Round(FAdd(prev, FMul(k, FSub(s[i], prev))))
         IN  EmaAcc(s, period, i + 1, e, Append(acc, e))

\* the EMA of s[first..], seeded at index `seedAt` with the simple average of the
\* `period` values that end there; NaN before the seed
talib_EMA(s, period, seedAt) ==
    IF Len(s) < seedAt THEN AllNaN(Len(s))
    ELSE LET seed == FDiv(FSum(s, seedAt - period + 1, seedAt), F(period))
         IN  EmaAcc(s, period, seedAt + 1, seed, Append(AllNaN(seedAt - 1), seed))

\* talib.MACD(prices, fastperiod, slowperiod, signalperiod): both EMAs start at
\* index slow-1, the signal line signal-1 later; lookback = slow-1 + signal-1,
\* and all three outputs are NaN up to it
talib_MACD(s, fast, slow, signal) ==
    LET lookback == (slow - 1) + (signal - 1)
    IN  IF Len(s) <= lookback
        THEN [macd |-> AllNaN(Len(s)), signal |-> AllNaN(Len(s)),
              histogram |-> AllNaN(Len(s))]
        ELSE LET fastE == talib_EMA(s, fast, slow)
                 slowE == talib_EMA(s, slow, slow)
                 line  == Series([i \in 1..Len(s) |->
                             IF i < slow THEN F(0) ELSE FSub(fastE[i], slowE[i])])
                 sig   == talib_EMA(line, signal, lookback + 1)
             IN  [macd |-> Series([i \in 1..Len(s) |-> IF i <= lookback THEN NaN ELSE line[i]]),
                  signal |-> sig,
                  histogram |-> Series([i \in 1..Len(s) |->
                                   IF i <= lookback THEN NaN ELSE FSub(line[i], sig[i])])]

\* talib.BBANDS(prices, timeperiod, nbdevup, nbdevdn): simple moving average and
\* population standard deviation, lookback = period-1
talib_BBANDS(s, period, nbdevup, nbdevdn) ==
    LET mid == Series([i \in 1..Len(s) |->
                  IF i < period THEN NaN
                  ELSE FDiv(FSum(s, i - period + 1, i), F(period))])
        sd  == Series([i \in 1..Len(s) |->
                  IF i < period THEN NaN
                  ELSE FSqrt(FDiv(SqDev(s, i - period + 1, i, mid[i]), F(period)))])
    IN  [upper |-> SeriesAdd(mid, SeriesScale(sd, F(nbdevup))),
         middle |-> mid,
         lower |-> SeriesSub(mid, SeriesScale(sd, F(nbdevdn)))]

(***************************************************************************)
(* The indicator functions                                                 *)
(***************************************************************************)
\* the default parameters of the signatures and of the MACD calls
RSI_PERIOD == 14
BB_PERIOD == 20
BB_STD_DEV == 2
MACD_FAST == 12
MACD_SLOW == 26
MACD_SIGNAL == 9

\* lines 28-33: the pandas fallback of calculate_rsi
rsi_fallback(prices, period) ==
    LET delta == diff(prices)
        up    == Series([i \in 1..Len(prices) |->
                    IF FGt(delta[i], F(0)) THEN delta[i] ELSE F(0)])
        down  == Series([i \in 1..Len(prices) |->
                    FNeg(IF FLt(delta[i], F(0)) THEN delta[i] ELSE F(0))])
        gain  == rolling_mean(up, period)
        loss  == rolling_mean(down, period)
        rs    == Series([i \in 1..Len(prices) |-> FDiv(gain[i], loss[i])])
    IN  Series([i \in 1..Len(prices) |->
            FSub(F(100), FDiv(F(100), FAdd(F(1), rs[i])))])

\* lines 22-33 with the flag as a parameter
rsi_branch(talib, prices, period) ==
    IF talib THEN talib_RSI(prices, period)
    ELSE rsi_fallback(prices, period)

calculate_rsi(prices, period) == rsi_branch(TALIB_AVAILABLE, prices, period)

\* lines 42-47: the pandas fallback of calculate_macd
macd_fallback(prices) ==
    LET exp1 == ewm_mean(prices, MACD_FAST)
        exp2 == ewm_mean(prices, MACD_SLOW)
        macd == SeriesSub(exp1, exp2)
        signal == ewm_mean(macd, MACD_SIGNAL)
    IN  [macd |-> macd, signal |-> signal, histogram |-> SeriesSub(macd, signal)]

\* lines 35-47 with the flag as a parameter
macd_branch(talib, prices) ==
    IF talib THEN talib_MACD(prices, MACD_FAST, MACD_SLOW, MACD_SIGNAL)
    ELSE macd_fallback(prices)

calculate_macd(prices) == macd_branch(TALIB_AVAILABLE, prices)

\* lines 56-60: the pandas fallback of calculate_bollinger_bands
bollinger_fallback(prices, period, std_dev) ==
    LET sma == rolling_mean(prices, period)
        std == rolling_std(prices, period)
    IN  [upper |-> SeriesAdd(sma, SeriesScale(std, F(std_dev))),
         middle |-> sma,
         lower |-> SeriesSub(sma, SeriesScale(std, F(std_dev)))]

\* lines 49-60 with the flag as a parameter
bollinger_branch(talib, prices, period, std_dev) ==
    IF talib THEN talib_BBANDS(prices, period, std_dev, std_dev)
    ELSE bollinger_fallback(prices, period, std_dev)

calculate_bollinger_bands(prices, period, std_dev) ==
    bollinger_branch(TALIB_AVAILABLE, prices, period, std_dev)

(***************************************************************************)
(* Direct calls of the indicator functions                                 *)
(***************************************************************************)
MaxLen == 5
MaxPrice == 2
MaxPeriod == 3

RECURSIVE SeqsUpTo(_, _)
\* the sequences over S of length 1..n
SeqsUpTo(S, n) ==
    IF n = 0 THEN {}
    ELSE LET shorter == SeqsUpTo(S, n - 1)
         IN  {<<x>> : x \in S} \cup shorter
               \cup {Append(q, x) : q \in {r \in shorter : Len(r) = n - 1}, x \in S}

\* the series of section 8 of the specification: 15 closes around 10..12
ScenarioSeries ==
    Series([i \in 1..15 |->
        Q(<<100, 105, 102, 108, 110, 109, 112, 115, 113, 116, 118, 119, 120, 122, 121>>[i], 10)])

\* a series without any price change, one sample longer than the RSI period
FlatSeries == Series([i \in 1..(RSI_PERIOD + 1) |-> F(10)])

\* a saw-tooth series one sample longer than the Bollinger period
LongSeries == Series([i \in 1..(BB_PERIOD + 1) |-> F(10 + (i % 3))])

PriceSeries ==
    {Series([i \in 1..Len(q) |-> F(q[i])]) : q \in SeqsUpTo(1..MaxPrice, MaxLen)}
      \cup {ScenarioSeries, FlatSeries, LongSeries}

Periods == (2..MaxPeriod) \cup {RSI_PERIOD, BB_PERIOD}

NoArgs == [prices |-> <<>>, period |-> 0]

NoOut == [fn |-> "none", value |-> <<>>]

NoRequest == [op |-> "none"]

NoResponse == [status |-> 0]

InitFunctions ==
    /\ TALIB_AVAILABLE \in BOOLEAN
    /\ args \in {[prices |-> p, period |-> w] : p \in PriceSeries, w \in Periods}
    /\ out = NoOut
    /\ request = NoRequest
    /\ response = NoResponse

CallRsi ==
    /\ out.fn = "none"
    /\ out' = [fn |-> "rsi", value |-> calculate_rsi(args.prices, args.period)]
    /\ UNCHANGED <<TALIB_AVAILABLE, request, response, args>>

CallMacd ==
    /\ out.fn = "none"
    /\ out' = [fn |-> "macd", value |-> calculate_macd(args.prices)]
    /\ UNCHANGED <<TALIB_AVAILABLE, request, response, args>>

CallBollinger ==
    /\ out.fn = "none"
    /\ out' = [fn |-> "bb",
               value |-> calculate_bollinger_bands(args.prices, args.period, BB_STD_DEV)]
    /\ UNCHANGED <<TALIB_AVAILABLE, request, response, args>>

NextFunctions == CallRsi \/ CallMacd \/ CallBollinger

SpecFunctions == InitFunctions /\ [][NextFunctions]_vars

(***************************************************************************)
(* The series provider (yfinance).  A ticker is a sequence of name parts:  *)
(* <<"EQNR">> is "EQNR" and <<"EQNR", "OL">> is "EQNR.OL".                 *)
(***************************************************************************)
\* rows of a 3-month and of a 6-month daily history
Rows3mo == 15
Rows6mo == 35

endswith_OL(ticker) == Len(ticker) > 1 /\ ticker[Len(ticker)] = "OL"

add_OL(ticker) == Append(ticker, "OL")

\* what the exchange lists: kind "ok" (a series), "malformed" (a frame without
\* its Close column), "error" (the request fails); any other symbol is unknown.
\* A series repeats a cycle of 14 daily price changes; its volume is vbase on
\* every day but the latest, which is vlast; `listed` is how many days exist.
Listings ==
    [EQNR |-> [kind |-> "ok", listed |-> 1000, vbase |-> 13, vlast |-> 28,
               cycle |-> <<1, 1, -3, 1, 1, -2, 1, 1, -2, 1, 1, -2, 1, -2>>],
     MOWI |-> [kind |-> "ok", listed |-> 1000, vbase |-> 13, vlast |-> 28,
               cycle |-> <<-1, -1, 3, -1, -1, 2, -1, -1, 2, -1, -1, 2, -1, 2>>],
     NHY  |-> [kind |-> "ok", listed |-> 1000, vbase |-> 2, vlast |-> 7,
               cycle |-> <<1, -1, 1, -1, 1, -1, 1, -1, 1, -1, 1, -1, 1, -1>>],
     ORK  |-> [kind |-> "ok", listed |-> 1000, vbase |-> 13, vlast |-> 28,
               cycle |-> <<1, 1, 1, 1, -1, 1, 1, 0, 0, 1, 1, -1, 0, 0>>],
     TEL  |-> [kind |-> "ok", listed |-> 5, vbase |-> 13, vlast |-> 28,
               cycle |-> <<1, -1, 1, -1, 1, -1, 1, -1, 1, -1, 1, -1, 1, -1>>],
     YAR  |-> [kind |-> "ok", listed |-> 1000, vbase |-> 0, vlast |-> 0,
               cycle |-> <<1, -1, 1, -1, 1, -1, 1, -1, 1, -1, 1, -1, 1, -1>>],
     BAD  |-> [kind |-> "malformed", listed |-> 1000, vbase |-> 1, vlast |-> 1,
               cycle |-> <<0, 0, 0, 0, 0, 0, 0, 0, 0, 0, 0, 0, 0, 0>>],
     ERR  |-> [kind |-> "error", listed |-> 0, vbase |-> 0, vlast |-> 0,
               cycle |-> <<0, 0, 0, 0, 0, 0, 0, 0, 0, 0, 0, 0, 0, 0>>]]

RECURSIVE IntSum(_, _, _)
IntSum(s, lo, hi) ==
    IF lo > hi THEN 0
    ELSE IF lo = hi THEN s[lo]
    ELSE LET mid == (lo + hi) \div 2
         IN  IntSum(s, lo, mid) + IntSum(s, mid + 1, hi)

\* the close of day i (day 1 closes at 50)
CloseAt(cycle, i) ==
    50 + ((i - 1) \div 14) * IntSum(cycle, 1, 14) + IntSum(cycle, 1, (i - 1) % 14)

EmptyFrame == [raised |-> FALSE, empty |-> TRUE, hasClose |-> TRUE,
               Close |-> <<>>, Volume |-> <<>>]

\* yf.Ticker(symbol).history(period): the frame of the last `rows` days, an empty
\* frame for an unknown symbol, or an exception
history(symbol, rows) ==
    IF ~(Len(symbol) = 2 /\ symbol[2] = "OL" /\ symbol[1] \in DOMAIN Listings)
    THEN EmptyFrame
    ELSE LET l == Listings[symbol[1]]
             n == IF l.listed < rows THEN l.listed ELSE rows
         IN  IF l.kind = "error" THEN [EmptyFrame EXCEPT !.raised = TRUE]
             ELSE [raised |-> FALSE, empty |-> FALSE,
                   hasClose |-> l.kind = "ok",
                   Close |-> Series([i \in 1..n |-> F(CloseAt(l.cycle, i))]),
                   Volume |-> Series([i \in 1..n |-> F(IF i = n THEN l.vlast ELSE l.vbase)])]

\* Series.mean()
mean(s) == FDiv(FSum(s, 1, Len(s)), F(Len(s)))

\* Series.iloc[-1]
last(s) == s[Len(s)]

(***************************************************************************)
(* The request handlers                                                    *)
(***************************************************************************)
Null == [k |-> "null", n |-> 0, d |-> 1]

\* latest without its isnan test: float(x) whatever x is
latest_unguarded(s) == last(s)

\* lines 88-98: float(x) if not np.isnan(x) else None
latest(s) == IF ~IsNaN(last(s)) THEN last(s) ELSE Null

\* spike_ratio without its guard: latest_volume / avg_volume
spike_ratio_unguarded(latest_volume, avg_volume) == PyDiv(latest_volume, avg_volume)

\* lines 103 and 151: latest_volume / avg_volume if avg_volume > 0 else 0
spike_ratio(latest_volume, avg_volume) ==
    IF FGt(avg_volume, F(0)) THEN PyDiv(latest_volume, avg_volume) ELSE F(0)

Failure == [status |-> 500, body |-> [error |-> "exception"]]

NoData == [status |-> 404, body |-> [error |-> "No data available"]]

\* lines 80-117: the indicators of a frame that is not empty; the timestamp is
\* the day of the last row
compute_indicators(ticker, hist) ==
    LET respond(prices, rsi, macd_data, bb, latest_volume, avg_volume, volume_spike) ==
            IF volume_spike.k = "raise" THEN Failure
            ELSE [status |-> 200,
                  body |-> [ticker |-> ticker,
                            latest_price |-> last(prices),
                            rsi |-> latest(rsi),
                            macd |-> [macd |-> latest(macd_data.macd),
                                      signal |-> latest(macd_data.signal),
                                      histogram |-> latest(macd_data.histogram)],
                            bollinger_bands |-> [upper |-> latest(bb.upper),
                                                 middle |-> latest(bb.middle),
                                                 lower |-> latest(bb.lower)],
                            volume |-> [current |-> latest_volume,
                                        average |-> avg_volume,
                                        spike_ratio |-> volume_spike],
                            timestamp |-> Len(prices)]]
        volumes(prices, rsi, macd_data, bb, latest_volume, avg_volume) ==
            respond(prices, rsi, macd_data, bb, latest_volume, avg_volume,
                    spike_ratio(latest_volume, avg_volume))
    IN  IF ~hist.hasClose THEN Failure
        ELSE volumes(hist.Close,
                     calculate_rsi(hist.Close, RSI_PERIOD),
                     calculate_macd(hist.Close),
                     calculate_bollinger_bands(hist.Close, BB_PERIOD, BB_STD_DEV),
                     last(hist.Volume),
                     mean(hist.Volume))

\* line 71
symbol_of(ticker) == IF ~endswith_OL(ticker) THEN add_OL(ticker) ELSE ticker

\* get_indicators without the test of lines 77-78: the indicators are computed
\* on the empty frame, where iloc[-1] raises
get_indicators_unchecked(ticker) ==
    LET handle(hist) ==
            IF hist.raised THEN Failure
            ELSE IF hist.empty THEN Failure
            ELSE compute_indicators(ticker, hist)
    IN  handle(history(symbol_of(ticker), Rows6mo))

\* lines 67-120
get_indicators(ticker) ==
    LET handle(hist) ==
            IF hist.raised THEN Failure
            ELSE IF hist.empty THEN NoData
            ELSE compute_indicators(ticker, hist)
    IN  handle(history(symbol_of(ticker), Rows6mo))

\* dict.get(key, default)
get(dict, key, default) == IF key \in DOMAIN dict THEN dict[key] ELSE default

\* meets_criteria with an exclusive lower RSI bound
meets_criteria_exclusive(latest_rsi, vol_spike, rsi_min, rsi_max, volume_spike) ==
    /\ FLt(rsi_min, latest_rsi)
    /\ FLe(latest_rsi, rsi_max)
    /\ FGe(vol_spike, volume_spike)

\* line 154: rsi_min <= latest_rsi <= rsi_max and vol_spike >= volume_spike
meets_criteria(latest_rsi, vol_spike, rsi_min, rsi_max, volume_spike) ==
    /\ FLe(rsi_min, latest_rsi)
    /\ FLe(latest_rsi, rsi_max)
    /\ FGe(vol_spike, volume_spike)

\* line 160
score(latest_rsi, vol_spike) ==
    FAdd(FSub(F(100), FAbs(FSub(F(50), latest_rsi))), FMul(vol_spike, F(10)))

\* lines 138-151 for one ticker: the fetch and the two figures the criteria read;
\* `raised` when an exception leaves the try block
compute_ticker(talib, ticker) ==
    LET none(raised, empty) ==
            [raised |-> raised, empty |-> empty, price |-> NaN,
             latest_rsi |-> NaN, vol_spike |-> NaN]
        figures(prices, latest_rsi, vol_spike) ==
            IF vol_spike.k = "raise" THEN none(TRUE, FALSE)
            ELSE [raised |-> FALSE, empty |-> FALSE, price |-> last(prices),
                  latest_rsi |-> latest_rsi, vol_spike |-> vol_spike]
        handle(hist) ==
            IF hist.raised THEN none(TRUE, FALSE)
            ELSE IF hist.empty THEN none(FALSE, TRUE)
            ELSE IF ~hist.hasClose THEN none(TRUE, FALSE)
            ELSE figures(hist.Close,
                         last(rsi_branch(talib, hist.Close, RSI_PERIOD)),
                         spike_ratio(last(hist.Volume), mean(hist.Volume)))
    IN  handle(history(add_OL(ticker), Rows3mo))

Names == {"EQNR", "MOWI", "NHY", "ORK", "TEL", "YAR", "BAD", "ERR", "XXX"}

Tickers == {<<n>> : n \in Names}

\* compute_ticker of every ticker a request can name, under either value of
\* the flag (the provider answers the same way each time it is asked)
Computed == [talib \in BOOLEAN, ticker \in Tickers |-> compute_ticker(talib, ticker)]

\* lines 137-165, one iteration of the loop: what it appends to results
process_ticker(ticker, rsi_min, rsi_max, volume_spike) ==
    LET append(c) ==
            IF c.raised \/ c.empty THEN <<>>
            ELSE IF meets_criteria(c.latest_rsi, c.vol_spike, rsi_min, rsi_max, volume_spike)
            THEN <<[ticker |-> ticker,
                    price |-> c.price,
                    rsi |-> c.latest_rsi,
                    volume_spike |-> c.vol_spike,
                    score |-> score(c.latest_rsi, c.vol_spike)]>>
            ELSE <<>>
    IN  append(Computed[TALIB_AVAILABLE, ticker])

RECURSIVE scan(_, _, _, _, _)
\* lines 134-165: results after the first n tickers
scan(tickers, n, rsi_min, rsi_max, volume_spike) ==
    IF n = 0 THEN <<>>
    ELSE scan(tickers, n - 1, rsi_min, rsi_max, volume_spike)
           \o process_ticker(tickers[n], rsi_min, rsi_max, volume_spike)

\* an insertion that puts x ahead of the entries of equal score
insert_before_ties(sorted, x) ==
    LET ahead == {i \in 1..Len(sorted) : FGt(sorted[i].score, x.score)}
        k == IF ahead = {} THEN 0 ELSE CHOOSE i \in ahead : \A j \in ahead : j <= i
    IN  SubSeq(sorted, 1, k) \o <<x>> \o SubSeq(sorted, k + 1, Len(sorted))

\* where a stable descending sort puts x among the sorted entries before it:
\* behind every entry whose score is not smaller
insert(sorted, x) ==
    LET ahead == {i \in 1..Len(sorted) : FGe(sorted[i].score, x.score)}
        k == IF ahead = {} THEN 0 ELSE CHOOSE i \in ahead : \A j \in ahead : j <= i
    IN  SubSeq(sorted, 1, k) \o <<x>> \o SubSeq(sorted, k + 1, Len(sorted))

RECURSIVE sort_by_score(_, _)
\* line 168: results.sort(key=score, reverse=True) over the first n entries
sort_by_score(results, n) ==
    IF n = 0 THEN <<>> ELSE insert(sort_by_score(results, n - 1), results[n])

\* line 171: results[:10]
TOP_N == 10

\* a slice that keeps everything
head_untruncated(s, n) == s

head(s, n) == SubSeq(s, 1, IF Len(s) < n THEN Len(s) ELSE n)

\* lines 167-174: sort, truncate, report
report(tickers, results) ==
    [status |-> 200,
     body |-> [results |-> head(sort_by_score(results, Len(results)), TOP_N),
               total_scanned |-> Len(tickers),
               matches |-> Len(results)]]

\* lines 130-165: the criteria and the loop over the tickers
screen(json) ==
    scan(json.tickers, Len(json.tickers),
         get(json.criteria, "rsi_min", F(30)),
         get(json.criteria, "rsi_max", F(70)),
         get(json.criteria, "volume_spike", Q(3, 2)))

\* run_screener with the loop's try/except left out: an exception of one ticker
\* reaches the handler of lines 176-177
run_screener_unisolated(json) ==
    IF ~json.wellformed THEN Failure
    ELSE IF \E i \in 1..Len(json.tickers) :
                Computed[TALIB_AVAILABLE, json.tickers[i]].raised
    THEN Failure
    ELSE report(json.tickers, screen(json))

\* lines 123-177
run_screener(json) ==
    IF ~json.wellformed THEN Failure
    ELSE report(json.tickers, screen(json))

(***************************************************************************)
(* The server: one request, handled once                                   *)
(***************************************************************************)
MaxRun == 10

\* a ticker list: a run of up to MaxRun copies of one ticker, and possibly one
\* more ticker somewhere in it
TickerLists ==
    {Series([i \in 1..n |-> x]) : x \in Tickers, n \in 0..MaxRun}
      \cup {Series([i \in 1..(n + 1) |-> IF i = k THEN y ELSE x]) :
                x \in Tickers, y \in Tickers, n \in 0..MaxRun, k \in 1..(MaxRun + 1)}

EmptyDict == [key \in {} |-> F(0)]

CriteriaSet ==
    {EmptyDict,
     [rsi_min |-> F(0), rsi_max |-> F(100), volume_spike |-> F(0)],
     [rsi_min |-> F(45), rsi_max |-> F(55)]}

ScreenerRequests ==
    {[op |-> "run_screener", ticker |-> <<>>, 
      json |-> [wellformed |-> TRUE, tickers |-> l, criteria |-> c]] :
        l \in TickerLists, c \in CriteriaSet}
      \cup {[op |-> "run_screener", ticker |-> <<>>, 
             json |-> [wellformed |-> FALSE, tickers |-> <<>>, criteria |-> EmptyDict]]}

IndicatorRequests ==
    {[op |-> "get_indicators", ticker |-> t,
      json |-> [wellformed |-> TRUE, tickers |-> <<>>, criteria |-> EmptyDict]] :
        t \in Tickers \cup {add_OL(u) : u \in Tickers}}

Init ==
    /\ TALIB_AVAILABLE \in BOOLEAN
    /\ request \in ScreenerRequests \cup IndicatorRequests
    /\ response = NoResponse
    /\ args = NoArgs
    /\ out = NoOut

GetIndicators ==
    /\ request.op = "get_indicators"
    /\ response = NoResponse
    /\ response' = get_indicators(request.ticker)
    /\ UNCHANGED <<TALIB_AVAILABLE, request, args, out>>

RunScreener ==
    /\ request.op = "run_screener"
    /\ response = NoResponse
    /\ response' = run_screener(request.json)
    /\ UNCHANGED <<TALIB_AVAILABLE, request, args, out>>

Next == GetIndicators \/ RunScreener

Spec == Init /\ [][Next]_vars

(***************************************************************************)
(* Properties of run_screener                                              *)
(***************************************************************************)
Min(a, b) == IF a < b THEN a ELSE b

\* a report of run_screener has been returned
Screened ==
    /\ request.op = "run_screener"
    /\ response # NoResponse
    /\ response.status = 200

\* the criteria of the request, with the defaults of the endpoint
RsiMin == get(request.json.criteria, "rsi_min", F(30))

RsiMax == get(request.json.criteria, "rsi_max", F(70))

SpikeThreshold == get(request.json.criteria, "volume_spike", Q(3, 2))

\* what lines 138-151 compute for ticker t
Figures(t) == Computed[TALIB_AVAILABLE, t]

\* t was retrieved non-empty and processed without exception, and its figures
\* are within the criteria, bounds included
Qualifies(t) ==
    /\ ~Figures(t).raised
    /\ ~Figures(t).empty
    /\ FLe(RsiMin, Figures(t).latest_rsi)
    /\ FLe(Figures(t).latest_rsi, RsiMax)
    /\ FLe(SpikeThreshold, Figures(t).vol_spike)

\* the positions of the input list whose ticker qualifies
AdmittedPos ==
    {p \in 1..Len(request.json.tickers) : Qualifies(request.json.tickers[p])}

\* the score of the ticker at each position of the input list
Scores ==
    Series([p \in 1..Len(request.json.tickers) |->
        score(Figures(request.json.tickers[p]).latest_rsi,
              Figures(request.json.tickers[p]).vol_spike)])

\* how many elements of the sequence ts are t
Count(ts, t) == Cardinality({i \in 1..Len(ts) : ts[i] = t})

\* the tickers of the entries of a result list
TickersOf(results) == Series([i \in 1..Len(results) |-> results[i].ticker])

\* results hold min(10, matches) entries in non-increasing order of score, and
\* every admitted position that scores more than the last entry is among them
TopTenByScore(results, matches, admitted, scores) ==
    /\ Len(results) <= 10
    /\ matches = Cardinality(admitted)
    /\ Len(results) = Min(10, matches)
    /\ \A i \in 1..(Len(results) - 1) : FGe(results[i].score, results[i + 1].score)
    /\ Len(results) > 0 =>
         Cardinality({p \in admitted : FGt(scores[p], results[Len(results)].score)})
           = Cardinality({i \in 1..Len(results) :
                            FGt(results[i].score, results[Len(results)].score)})

\* C1: the results of a report are min(10, matches) entries, matches being the
\* number of admitted tickers; they are in non-increasing order of score, and
\* every admitted ticker that scores more than the last entry kept is kept.
C1_TopTenByScore ==
    Screened =>
        TopTenByScore(response.body.results, response.body.matches, AdmittedPos, Scores)

\* more than ten tickers were admitted, and the best one came last in the input
C1_Witness ==
    /\ Screened
    /\ response.body.matches > 10
    /\ Len(response.body.results) = 10
    /\ FGt(response.body.results[1].score, response.body.results[10].score)
    /\ response.body.results[1].ticker
         = request.json.tickers[Len(request.json.tickers)]

\* the matches are the admitted positions; every entry is about an admitted
\* ticker and within the criteria; no ticker has more entries than admitted
\* occurrences in the input, and as many when nothing is truncated
AdmittedIffWithinCriteria(results, matches, tickers, admitted) ==
    /\ matches = Cardinality(admitted)
    /\ \A i \in 1..Len(results) :
         /\ \E p \in admitted : tickers[p] = results[i].ticker
         /\ FLe(RsiMin, results[i].rsi)
         /\ FLe(results[i].rsi, RsiMax)
         /\ FLe(SpikeThreshold, results[i].volume_spike)
    /\ \A t \in {tickers[p] : p \in 1..Len(tickers)} \cup
                {results[i].ticker : i \in 1..Len(results)} :
         /\ Count(TickersOf(results), t) <= Count(tickers, t)
         /\ Count(TickersOf(results), t) <= Cardinality({p \in admitted : tickers[p] = t})
         /\ matches <= 10 =>
              Count(TickersOf(results), t) = Cardinality({p \in admitted : tickers[p] = t})

\* C2: a ticker retrieved non-empty and processed without exception is admitted
\* exactly when rsi_min <= rsi <= rsi_max and vol_spike >= threshold (bounds
\* included); nothing else is admitted, and no ticker more often than it occurs.
C2_AdmittedIffWithinCriteria ==
    Screened =>
        AdmittedIffWithinCriteria(response.body.results, response.body.matches,
                                  request.json.tickers, AdmittedPos)

\* a ticker whose RSI is exactly rsi_min was admitted, and another ticker, though
\* retrieved and processed, was rejected
C2_Witness ==
    /\ Screened
    /\ \E i \in 1..Len(response.body.results) : response.body.results[i].rsi = RsiMin
    /\ \E p \in 1..Len(request.json.tickers) :
         /\ p \notin AdmittedPos
         /\ ~Figures(request.json.tickers[p]).raised
         /\ ~Figures(request.json.tickers[p]).empty

\* the tickers whose retrieval or computation fails, or whose history is empty
FailingTickers ==
    {t \in Tickers : \/ history(add_OL(t), Rows3mo).raised
                     \/ history(add_OL(t), Rows3mo).empty
                     \/ ~history(add_OL(t), Rows3mo).hasClose}

Without(tickers, S) == SelectSeq(tickers, LAMBDA t : t \notin S)

\* the failing tickers of a list
FailingIn(tickers) == {tickers[p] : p \in 1..Len(tickers)} \cap FailingTickers

\* C3: whatever tickers of a batch fail, and wherever they stand in it, a report
\* is returned, every ticker is scanned, and results and matches are those of
\* the batch with any of the failing tickers removed.
C3_FailuresIsolated ==
    (request.op = "run_screener" /\ request.json.wellformed /\ response # NoResponse) =>
        /\ response.status = 200
        /\ response.body.total_scanned = Len(request.json.tickers)
        /\ \A S \in (SUBSET FailingIn(request.json.tickers)) \ {{}} :
             LET rest == run_screener([request.json EXCEPT !.tickers = Without(@, S)])
             IN  /\ rest.status = 200
                 /\ rest.body.results = response.body.results
                 /\ rest.body.matches = response.body.matches

\* a ticker whose processing raised stands ahead of a ticker that was admitted
C3_Witness ==
    /\ Screened
    /\ \E p \in 1..Len(request.json.tickers) :
         /\ Figures(request.json.tickers[p]).raised
         /\ \E q \in AdmittedPos : p < q
    /\ response.body.matches > 0

\* the r-th entry with a score is about the r-th admitted position with it
TiesInInputOrder(results, tickers, admitted, scores) ==
    \A i \in 1..Len(results) :
      \E p \in admitted :
        /\ scores[p] = results[i].score
        /\ tickers[p] = results[i].ticker
        /\ Cardinality({q \in admitted : q <= p /\ scores[q] = scores[p]})
             = Cardinality({j \in 1..i : results[j].score = results[i].score})

\* C10: entries of equal score stand in the results in the order of their
\* tickers in the input: the r-th entry with a score is the r-th admitted
\* ticker of the input with that score.
C10_TiesInInputOrder ==
    Screened =>
        TiesInInputOrder(response.body.results, request.json.tickers, AdmittedPos, Scores)

\* two different tickers tie, and the truncation dropped an admitted ticker
C10_Witness ==
    /\ Screened
    /\ response.body.matches > Len(response.body.results)
    /\ \E i, j \in 1..Len(response.body.results) :
         /\ i < j
         /\ response.body.results[i].score = response.body.results[j].score
         /\ response.body.results[i].ticker # response.body.results[j].ticker

(***************************************************************************)
(* Properties of get_indicators and of the volume-spike ratio              *)
(***************************************************************************)
\* get_indicators has answered
Answered == request.op = "get_indicators" /\ response # NoResponse

\* the frame get_indicators retrieved
Retrieved == history(symbol_of(request.ticker), Rows6mo)

\* C4: an empty frame gives 404 "No data available", with nothing computed, and
\* never 500; 500 is given only when retrieval or computation raised.
C4_EmptyIsNoData ==
    Answered =>
        /\ response.status \in {200, 404, 500}
        /\ (~Retrieved.raised /\ Retrieved.empty) =>
             /\ response.status = 404
             /\ response.body = [error |-> "No data available"]
        /\ response.status = 404 => Retrieved.empty
        /\ response.status = 500 =>
             Retrieved.raised \/ (~Retrieved.empty /\ ~Retrieved.hasClose)

\* the symbol is unknown to the provider and the answer is 404
C4_Witness ==
    /\ Answered
    /\ ~Retrieved.raised
    /\ Retrieved.empty
    /\ response.status = 404

\* x is what a record shows for the latest value of the series raw
Shown(x, raw) ==
    /\ x.k # "nan"
    /\ IsNaN(last(raw)) => x = Null
    /\ ~IsNaN(last(raw)) => x = last(raw)

\* C7: NaN never reaches a record and no field is left out: each of the seven
\* indicator fields of get_indicators is null when its latest value is
\* undefined and that value otherwise, and no match of run_screener has an
\* undefined rsi.
C7_UndefinedIsNull ==
    /\ (Answered /\ response.status = 200) =>
         /\ DOMAIN response.body =
              {"ticker", "latest_price", "rsi", "macd", "bollinger_bands", "volume",
               "timestamp"}
         /\ DOMAIN response.body.macd = {"macd", "signal", "histogram"}
         /\ DOMAIN response.body.bollinger_bands = {"upper", "middle", "lower"}
         /\ Shown(response.body.rsi, calculate_rsi(Retrieved.Close, RSI_PERIOD))
         /\ \A f \in {"macd", "signal", "histogram"} :
              Shown(response.body.macd[f], calculate_macd(Retrieved.Close)[f])
         /\ \A f \in {"upper", "middle", "lower"} :
              Shown(response.body.bollinger_bands[f],
                    calculate_bollinger_bands(Retrieved.Close, BB_PERIOD, BB_STD_DEV)[f])
    /\ Screened =>
         /\ \A i \in 1..Len(response.body.results) : response.body.results[i].rsi.k = "num"
         /\ \A p \in 1..Len(request.json.tickers) :
              IsNaN(Figures(request.json.tickers[p]).latest_rsi) => p \notin AdmittedPos

\* the history is too short for the RSI and for the bands: both are null
C7_Witness ==
    /\ Answered
    /\ response.status = 200
    /\ response.body.rsi = Null
    /\ response.body.bollinger_bands.upper = Null

\* the volumes the provider holds for a listed name over `rows` days: their sum
\* and their number
VolumeDays(name, rows) == Min(Listings[name].listed, rows)

VolumeSum(name, rows) ==
    (VolumeDays(name, rows) - 1) * Listings[name].vbase + Listings[name].vlast

\* latest volume / mean volume, or 0 when the mean is 0
ExpectedSpike(name, rows) ==
    IF VolumeSum(name, rows) > 0
    THEN Q(Listings[name].vlast * VolumeDays(name, rows), VolumeSum(name, rows))
    ELSE F(0)

\* C8: the volume-spike ratio is latest volume / mean volume when the mean is
\* positive and 0 when the mean is zero, and computing it raises in neither
\* handler.
C8_VolumeSpikeGuarded ==
    /\ (Answered /\ ~Retrieved.raised /\ ~Retrieved.empty /\ Retrieved.hasClose) =>
         /\ response.status = 200
         /\ response.body.volume.spike_ratio = ExpectedSpike(request.ticker[1], Rows6mo)
    /\ Screened =>
         /\ \A i \in 1..Len(response.body.results) :
              response.body.results[i].volume_spike
                = ExpectedSpike(response.body.results[i].ticker[1], Rows3mo)
         /\ \A p \in 1..Len(request.json.tickers) :
              LET t == request.json.tickers[p]
              IN  (t \notin FailingTickers) =>
                    /\ ~Figures(t).raised
                    /\ Figures(t).vol_spike = ExpectedSpike(t[1], Rows3mo)

\* a ticker without any volume is answered with a ratio of 0
C8_Witness ==
    /\ Answered
    /\ response.status = 200
    /\ response.body.volume.average = F(0)
    /\ response.body.volume.spike_ratio = F(0)

(***************************************************************************)
(* Properties of the indicator functions                                   *)
(***************************************************************************)
\* the undefined positions of a series
Undefined(s) == {i \in 1..Len(s) : IsNaN(s[i])}

\* s is as long as the input and undefined at each of the first period-1 positions
WarmUp(s) ==
    /\ Len(s) = Len(args.prices)
    /\ \A i \in 1..Len(s) : i < args.period => IsNaN(s[i])

\* C5: the outputs of calculate_rsi and calculate_bollinger_bands are as long as
\* the input and undefined at every index below period-1 (all of them when the
\* input is shorter than the period), nothing being raised; the RSI of period
\* 14 of the 15-sample series is undefined at index 12 and defined at index 13.
C5_UndefinedBeforeWindow ==
    /\ out.fn = "rsi" =>
         /\ WarmUp(out.value)
         /\ (args.prices = ScenarioSeries /\ args.period = RSI_PERIOD) =>
              /\ IsNaN(out.value[13])
              /\ ~IsNaN(out.value[14])
    /\ out.fn = "bb" =>
         /\ WarmUp(out.value.upper)
         /\ WarmUp(out.value.middle)
         /\ WarmUp(out.value.lower)

\* no price of s[1..i] is lower than the one before it
NoLossUpTo(s, i) == \A j \in 2..i : ~FLt(s[j], s[j - 1])

\* C6: a defined value of calculate_rsi is within [0, 100]; where the average
\* loss is zero the value is 100 or undefined, a flat window included.
C6_RsiWithinBounds ==
    out.fn = "rsi" =>
        \A i \in 1..Len(out.value) :
           /\ out.value[i].k # "raise"
           /\ ~IsNaN(out.value[i]) =>
                FLe(F(0), out.value[i]) /\ FLe(out.value[i], F(100))
           /\ NoLossUpTo(args.prices, i) =>
                out.value[i] = F(100) \/ IsNaN(out.value[i])

\* C9: whichever branch runs, the outputs of calculate_rsi, calculate_macd and
\* calculate_bollinger_bands have the same length and the same undefined
\* positions as the other branch gives for the same input.
C9_BranchesAgree ==
    /\ out.fn = "rsi" =>
         LET other == rsi_branch(~TALIB_AVAILABLE, args.prices, args.period)
         IN  Len(out.value) = Len(other) /\ Undefined(out.value) = Undefined(other)
    /\ out.fn = "macd" =>
         LET other == macd_branch(~TALIB_AVAILABLE, args.prices)
         IN  \A f \in {"macd", "signal", "histogram"} :
               /\ Len(out.value[f]) = Len(other[f])
               /\ Undefined(out.value[f]) = Undefined(other[f])
    /\ out.fn = "bb" =>
         LET other == bollinger_branch(~TALIB_AVAILABLE, args.prices, args.period,
                                       BB_STD_DEV)
         IN  \A f \in {"upper", "middle", "lower"} :
               /\ Len(out.value[f]) = Len(other[f])
               /\ Undefined(out.value[f]) = Undefined(other[f])

====
